---- MODULE Spec2Model ----
(***************************************************************************)
(* Model of the OSR USB-FX2 driver (DriverSourceCode/my_usb_driver.c).     *)
(*                                                                         *)
(* One device context (struct osrfx2) goes through probe, use and          *)
(* disconnect.  Callers are threads that open the character device, read   *)
(* and write through the session and close it.  Handlers whose             *)
(* interleaving matters (open, read, write, disconnect) are split at       *)
(* their shared-memory accesses; each caller's position is pc[p].          *)
(*                                                                         *)
(* The specifications share the variables:                                 *)
(*   Spec      device lifetime, the access arbiter and the bulk pipes      *)
(*   SpecArb   device lifetime and the access arbiter alone                *)
(*   SpecInt   device lifetime, power state and the interrupt listener     *)
(*   SpecRemap the bit tables of the LED and 7-segment attributes          *)
(*   SpecAttr  device lifetime, power state and the sysfs attributes       *)
(*   SpecPm    suspend and resume against attribute reads taken in steps   *)
(*                                                                         *)
(* Conventions of the kernel the driver runs in that the model relies on:  *)
(*   - the USB core calls ->open with its minor table read-locked and      *)
(*     usb_deregister_dev write-locks that table, so usb_deregister_dev    *)
(*     waits for opens in progress and no open starts after it;            *)
(*   - probe, disconnect, suspend and resume of one interface are          *)
(*     serialised by the device lock;                                      *)
(*   - the VFS only calls ->read on a file opened for reading and ->write  *)
(*     on a file opened for writing;                                       *)
(*   - nonseekable_open always returns 0;                                  *)
(*   - usb_kill_urb unlinks the urb, makes it reject submissions and       *)
(*     returns when its completion handler has finished;                   *)
(*   - a thread that oopses is killed and its files are then released.     *)
(*                                                                         *)
(* size_t pending_data is modelled as a ring of 2^SizeBits values: the     *)
(* arithmetic is the machine's modular arithmetic at a reduced width.      *)
(***************************************************************************)
EXTENDS Integers, Sequences, FiniteSets, TLC

(* ---- bounds ---- *)
NumProcs == 2
MaxCount == 1
MaxUrbs == 2
SizeBits == 2
BulkInSize == 1

(* ---- errno values used by the driver ---- *)
ENOMEM == 12
EFAULT == 14
EBUSY == 16
ENODEV == 19
ENOENT == 2
ECONNRESET == 104
ESHUTDOWN == 108
EPIPE == 32
ETIMEDOUT == 110
EHOSTUNREACH == 113
ERESTARTSYS == 512

Procs == 1..NumProcs
Urbs == 1..MaxUrbs
SizeModulus == 2^SizeBits

OpenFlags == {"O_RDONLY", "O_WRONLY", "O_RDWR"}
WantsWrite(f) == f \in {"O_WRONLY", "O_RDWR"}
WantsRead(f) == f \in {"O_RDONLY", "O_RDWR"}

(* statuses the USB core can hand back *)
ClearHaltResults == {0, -EPIPE, -ETIMEDOUT}
SubmitErrs == {-ENODEV, -EPIPE}
BulkMsgErrs == {-ETIMEDOUT, -EPIPE}
CtrlMsgErrs == {-ETIMEDOUT, -EPIPE}
UrbStatuses == {0, -ENOENT, -ECONNRESET, -ESHUTDOWN, -EPIPE}

VARIABLES
  devpc,                 \* position of the USB core's probe/disconnect thread
  ctx,                   \* struct osrfx2: "none", "live" or "freed"
  deleted,               \* number of times osrfx2_delete has run
  deletedBy,             \* the handler whose kref_put ran osrfx2_delete
  kref,                  \* fx2dev->kref
  intfdata,              \* usb_get_intfdata(intf): "fx2dev" or "NULL"
  interface,             \* fx2dev->interface: "intf" or "NULL"
  minor,                 \* TRUE while the minor is registered
  attrFiles,             \* TRUE while the sysfs attribute files exist
  disc_fx2dev,           \* osrfx2_disconnect's local fx2dev
  bulk_write_available,  \* fx2dev->bulk_write_available
  bulk_read_available,   \* fx2dev->bulk_read_available
  pending_data,          \* fx2dev->pending_data
  urbs,                  \* bulk-out urb + buffer of each write: slot state
  int_in_urb,            \* interrupt urb: "none", "idle", "armed", "completing"
  suspended,             \* fx2dev->suspended
  leds, segments,        \* fx2dev->leds, fx2dev->segments
  hwLeds, hwSegs,        \* the board's LED and 7-segment registers
  switches,              \* fx2dev->switches
  int_in_buffer,         \* *fx2dev->int_in_buffer: the last payload delivered
  ihpc,                  \* position of interrupt_handler: "idle", "wake", "submit"
  pmpc,                  \* position of the USB core's suspend/resume thread
  apc,                   \* position of a display attribute read: "idle", "gb_xfer", "g7_xfer"
  pc, flags,             \* per caller: position, file->f_flags & O_ACCMODE
  count, retval, tmp,    \* per caller: count argument, local retval, loaded pending_data
  eff,                   \* per caller: net effect of the open call in progress
  ev                     \* what the last step returned, logged or crashed on

ctxVars == <<ctx, deleted, deletedBy, kref, intfdata, interface, minor, attrFiles,
             disc_fx2dev, int_in_urb>>
arbVars == <<bulk_write_available, bulk_read_available>>
attrVars == <<suspended, leds, segments, hwLeds, hwSegs>>
intVars == <<switches, int_in_buffer, ihpc, pmpc, apc>>
procVars == <<pc, flags, count, retval, tmp, eff>>
vars == <<devpc, ctxVars, arbVars, pending_data, urbs, attrVars, intVars, procVars, ev>>

(* ---- events ---- *)
\* ev is what the step just taken returned, logged or crashed on: the caller,
\* the handler, its argument (access mode of an open, count of a read or
\* write), the value returned (or, for a crash, the status being handled),
\* the message logged and, for an attribute read, the text produced.
NoEv == [p |-> 0, op |-> "none", arg |-> 0, tag |-> "none", val |-> 0, log |-> "none",
         buf |-> <<>>]
Ret(p, o, a, v) == [NoEv EXCEPT !.p = p, !.op = o, !.arg = a, !.tag = "ret", !.val = v]
RetLog(p, o, a, v, l) == [Ret(p, o, a, v) EXCEPT !.log = l]
Oops(p, o, a, v) == [Ret(p, o, a, v) EXCEPT !.tag = "oops"]
Log(p, o, l) == [NoEv EXCEPT !.p = p, !.op = o, !.log = l]
\* a completion handler o ran for a urb of status s and logged l
Completed(o, s, l) == [Log(0, o, l) EXCEPT !.tag = "status", !.val = s]

\* file->f_flags & O_ACCMODE as a number
AccMode(f) == CASE f = "O_RDONLY" -> 0 [] f = "O_WRONLY" -> 1 [] f = "O_RDWR" -> 2

NoEff == [w |-> 0, r |-> 0, k |-> 0, rTouched |-> FALSE]

(* ---- kref ---- *)
\* kref_put(&fx2dev->kref, osrfx2_delete): the count drops and osrfx2_delete
\* runs when it reaches zero.  A put on a count that is already zero is a
\* put on freed memory; it is taken to run the release function again.
kref_put(who) ==
  IF kref <= 1
    THEN /\ kref' = 0
         /\ ctx' = "freed"
         /\ deleted' = deleted + 1
         /\ deletedBy' = who
    ELSE /\ kref' = kref - 1
         /\ UNCHANGED <<ctx, deleted, deletedBy>>

(* ---- Init: the device is plugged in, the driver has not probed it ---- *)
Init ==
  /\ devpc = "unprobed"
  /\ ctx = "none" /\ deleted = 0 /\ deletedBy = "none" /\ kref = 0
  /\ intfdata = "NULL" /\ interface = "NULL" /\ minor = FALSE /\ attrFiles = FALSE
  /\ disc_fx2dev = "NULL"
  /\ bulk_write_available = 0 /\ bulk_read_available = 0
  /\ pending_data = 0
  /\ urbs = [u \in Urbs |-> "unused"]
  /\ int_in_urb = "none"
  /\ suspended = FALSE
  /\ leds = 0 /\ segments = 0 /\ hwLeds = 0 /\ hwSegs = 0
  /\ switches = 0 /\ int_in_buffer = 0 /\ ihpc = "idle" /\ pmpc = "idle" /\ apc = "idle"
  /\ pc = [p \in Procs |-> "idle"]
  /\ flags = [p \in Procs |-> "O_RDONLY"]
  /\ count = [p \in Procs |-> 0]
  /\ retval = [p \in Procs |-> 0]
  /\ tmp = [p \in Procs |-> 0]
  /\ eff = [p \in Procs |-> NoEff]
  /\ ev = NoEv

(* ---- osrfx2_probe ---- *)
ProbeOutcomes == {"ok", "nomem_ctx", "create_file", "no_endpoints", "nomem_int_buf",
                  "nomem_int_urb", "submit", "nomem_bulk_in", "nomem_bulk_out", "register"}
ProbeErr(o) ==
  CASE o \in {"nomem_ctx", "nomem_int_buf", "nomem_int_urb", "nomem_bulk_in", "nomem_bulk_out"} -> -ENOMEM
    [] o = "no_endpoints" -> -ENODEV
    [] o = "create_file" -> -ENOMEM
    [] o = "submit" -> -ENODEV
    [] OTHER -> 0

osrfx2_probe(o) ==
  /\ devpc = "unprobed"
  /\ UNCHANGED <<pending_data, urbs, attrVars, intVars, procVars, disc_fx2dev>>
  /\ IF o = "nomem_ctx"
       THEN /\ devpc' = "failed"
            /\ ev' = RetLog(0, "probe", 0, ProbeErr(o), "probe")
            /\ UNCHANGED <<ctx, deleted, deletedBy, kref, intfdata, interface, minor,
                           attrFiles, int_in_urb, arbVars>>
       ELSE \* kref_init, usb_set_intfdata, permits set to 1 (lines 172-180)
            /\ bulk_write_available' = 1
            /\ bulk_read_available' = 1
            /\ attrFiles' = TRUE
            /\ IF o \in {"ok", "register"}
                 THEN /\ devpc' = "bound"
                      /\ ctx' = "live" /\ kref' = 1
                      /\ interface' = "intf"
                      /\ int_in_urb' = "armed"
                      /\ minor' = (o = "ok")
                      /\ intfdata' = IF o = "ok" THEN "fx2dev" ELSE "NULL"
                      /\ ev' = Ret(0, "probe", 0, 0)
                      /\ UNCHANGED <<deleted, deletedBy>>
                 ELSE \* every failure path: kref_put(&fx2dev->kref, osrfx2_delete)
                      /\ devpc' = "failed"
                      /\ ctx' = "freed" /\ kref' = 0
                      /\ deleted' = deleted + 1 /\ deletedBy' = "probe"
                      /\ interface' = "intf" /\ intfdata' = "fx2dev"
                      /\ int_in_urb' = IF o \in {"nomem_bulk_in", "nomem_bulk_out"}
                                         THEN "armed" ELSE "none"
                      /\ minor' = FALSE
                      /\ ev' = RetLog(0, "probe", 0, ProbeErr(o), "probe")

(* ---- osrfx2_open ---- *)
OpenPcs == {"o_intfdata", "o_wdec", "o_winc", "o_rdec", "o_rinc", "o_rwinc", "o_kref"}
SessionPcs == {"opened", "r_load", "r_store", "w_load", "w_store"}

\* the caller is back where it started and its file is gone; dw, dr, dk are
\* what the returning step itself adds to the write permit, the read permit
\* and the reference count
ReturnIdle(p, dw, dr, dk) ==
  /\ pc' = [pc EXCEPT ![p] = "idle"]
  /\ flags' = [flags EXCEPT ![p] = "O_RDONLY"]
  /\ eff' = [eff EXCEPT ![p] = [w |-> @.w + dw, r |-> @.r + dr, k |-> @.k + dk,
                                rTouched |-> FALSE]]

\* line 397-398: usb_find_interface
osrfx2_open_find(p, f) ==
  /\ pc[p] = "idle"
  /\ devpc # "unprobed"
  /\ IF minor
       THEN /\ pc' = [pc EXCEPT ![p] = "o_intfdata"]
            /\ flags' = [flags EXCEPT ![p] = f]
            /\ eff' = [eff EXCEPT ![p] = NoEff]
            /\ ev' = NoEv
       ELSE /\ UNCHANGED <<pc, flags, eff>>
            /\ ev' = Ret(p, "open", AccMode(f), -ENODEV)
  /\ UNCHANGED <<devpc, ctxVars, arbVars, pending_data, urbs, attrVars, intVars,
                 count, retval, tmp>>

\* line 400-401: usb_get_intfdata
osrfx2_open_intfdata(p) ==
  /\ pc[p] = "o_intfdata"
  /\ IF intfdata = "NULL"
       THEN /\ ReturnIdle(p, 0, 0, 0)
            /\ ev' = Ret(p, "open", AccMode(flags[p]), -ENODEV)
       ELSE /\ pc' = [pc EXCEPT ![p] = IF WantsWrite(flags[p]) THEN "o_wdec" ELSE "o_rdec"]
            /\ ev' = NoEv
            /\ UNCHANGED <<flags, eff>>
  /\ UNCHANGED <<devpc, ctxVars, arbVars, pending_data, urbs, attrVars, intVars,
                 count, retval, tmp>>

\* mutant: the permit is taken whenever the decremented value is not positive
atomic_dec_and_test_le(v) == v - 1 <= 0

\* atomic_dec_and_test: TRUE iff the decremented value is zero
atomic_dec_and_test(v) == v - 1 = 0

\* line 407 and 413-417: take the write permit, then usb_clear_halt on bulk-out
osrfx2_open_wdec(p, r) ==
  /\ pc[p] = "o_wdec"
  /\ bulk_write_available' = bulk_write_available - 1
  /\ eff' = [eff EXCEPT ![p].w = @ - 1]
  /\ IF atomic_dec_and_test(bulk_write_available)
       THEN /\ pc' = [pc EXCEPT ![p] = IF WantsRead(flags[p]) THEN "o_rdec" ELSE "o_kref"]
            /\ ev' = IF r # 0 /\ r # -EPIPE THEN Log(p, "open", "usb_clear_halt") ELSE NoEv
       ELSE /\ pc' = [pc EXCEPT ![p] = "o_winc"]
            /\ r = 0
            /\ ev' = NoEv
  /\ UNCHANGED <<devpc, ctxVars, bulk_read_available, pending_data, urbs,
                 attrVars, intVars, flags, count, retval, tmp>>

\* line 408-409
osrfx2_open_winc(p) ==
  /\ pc[p] = "o_winc"
  /\ bulk_write_available' = bulk_write_available + 1
  /\ ReturnIdle(p, 1, 0, 0)
  /\ ev' = Ret(p, "open", AccMode(flags[p]), -EBUSY)
  /\ UNCHANGED <<devpc, ctxVars, bulk_read_available, pending_data, urbs,
                 attrVars, intVars, count, retval, tmp>>

\* line 421 and 429-433: take the read permit, then usb_clear_halt on bulk-in
osrfx2_open_rdec(p, r) ==
  /\ pc[p] = "o_rdec"
  /\ bulk_read_available' = bulk_read_available - 1
  /\ eff' = [eff EXCEPT ![p].r = @ - 1, ![p].rTouched = TRUE]
  /\ IF atomic_dec_and_test(bulk_read_available)
       THEN /\ pc' = [pc EXCEPT ![p] = "o_kref"]
            /\ ev' = IF r # 0 /\ r # -EPIPE THEN Log(p, "open", "usb_clear_halt") ELSE NoEv
       ELSE /\ pc' = [pc EXCEPT ![p] = "o_rinc"]
            /\ r = 0
            /\ ev' = NoEv
  /\ UNCHANGED <<devpc, ctxVars, bulk_write_available, pending_data, urbs,
                 attrVars, intVars, flags, count, retval, tmp>>

\* mutant: O_RDWR returns -EBUSY without giving the write permit back
osrfx2_open_rinc_norelease(p) ==
  /\ pc[p] = "o_rinc"
  /\ bulk_read_available' = bulk_read_available + 1
  /\ ReturnIdle(p, 0, 1, 0)
  /\ ev' = Ret(p, "open", AccMode(flags[p]), -EBUSY)
  /\ UNCHANGED <<devpc, ctxVars, bulk_write_available, pending_data, urbs,
                 attrVars, intVars, count, retval, tmp>>

\* line 422-425: give the read permit back; O_RDWR goes on to give back the write permit
osrfx2_open_rinc(p) ==
  /\ pc[p] = "o_rinc"
  /\ bulk_read_available' = bulk_read_available + 1
  /\ IF flags[p] = "O_RDWR"
       THEN /\ pc' = [pc EXCEPT ![p] = "o_rwinc"]
            /\ eff' = [eff EXCEPT ![p].r = @ + 1]
            /\ ev' = NoEv
            /\ UNCHANGED flags
       ELSE /\ ReturnIdle(p, 0, 1, 0)
            /\ ev' = Ret(p, "open", AccMode(flags[p]), -EBUSY)
  /\ UNCHANGED <<devpc, ctxVars, bulk_write_available, pending_data, urbs,
                 attrVars, intVars, count, retval, tmp>>

\* line 424-425
osrfx2_open_rwinc(p) ==
  /\ pc[p] = "o_rwinc"
  /\ bulk_write_available' = bulk_write_available + 1
  /\ ReturnIdle(p, 1, 0, 0)
  /\ ev' = Ret(p, "open", AccMode(flags[p]), -EBUSY)
  /\ UNCHANGED <<devpc, ctxVars, bulk_read_available, pending_data, urbs,
                 attrVars, intVars, count, retval, tmp>>

\* mutant: the session is handed out without kref_get
osrfx2_open_kref_noget(p) ==
  /\ pc[p] = "o_kref"
  /\ pc' = [pc EXCEPT ![p] = "opened"]
  /\ ev' = Ret(p, "open", AccMode(flags[p]), 0)
  /\ UNCHANGED <<devpc, ctxVars, arbVars, pending_data, urbs, attrVars, intVars, flags, count,
                 retval, tmp, eff>>

\* line 437-446: nonseekable_open, kref_get, file->private_data = fx2dev
osrfx2_open_kref(p) ==
  /\ pc[p] = "o_kref"
  /\ kref' = kref + 1
  /\ pc' = [pc EXCEPT ![p] = "opened"]
  /\ eff' = [eff EXCEPT ![p].k = @ + 1]
  /\ ev' = Ret(p, "open", AccMode(flags[p]), 0)
  /\ UNCHANGED <<devpc, ctx, deleted, deletedBy, intfdata, interface, minor, attrFiles,
                 disc_fx2dev, int_in_urb, arbVars, pending_data, urbs,
                 attrVars, intVars, flags, count, retval, tmp>>

(* ---- osrfx2_release ---- *)
\* mutant: the permits are not given back
osrfx2_release_keep(p) ==
  /\ pc[p] = "opened"
  /\ kref_put("release")
  /\ ReturnIdle(p, 0, 0, -1)
  /\ ev' = Ret(p, "release", AccMode(flags[p]), 0)
  /\ UNCHANGED <<devpc, intfdata, interface, minor, attrFiles, disc_fx2dev, int_in_urb,
                 arbVars, pending_data, urbs, attrVars, intVars, count, retval, tmp>>

\* line 450-471
osrfx2_release(p) ==
  /\ pc[p] = "opened"
  /\ bulk_write_available' = bulk_write_available + (IF WantsWrite(flags[p]) THEN 1 ELSE 0)
  /\ bulk_read_available' = bulk_read_available + (IF WantsRead(flags[p]) THEN 1 ELSE 0)
  /\ kref_put("release")
  /\ ReturnIdle(p, IF WantsWrite(flags[p]) THEN 1 ELSE 0,
                   IF WantsRead(flags[p]) THEN 1 ELSE 0, -1)
  /\ ev' = Ret(p, "release", AccMode(flags[p]), 0)
  /\ UNCHANGED <<devpc, intfdata, interface, minor, attrFiles, disc_fx2dev, int_in_urb,
                 pending_data, urbs, attrVars, intVars, count, retval, tmp>>

(* ---- usb_kill_urb(fx2dev->int_in_urb) ---- *)
\* While a usb_kill_urb is in progress the urb rejects submissions.
Killing == devpc = "d_files" \/ pmpc = "s_kill"

\* First half: an armed urb is unlinked and given back, interrupt_handler
\* runs for it with status -ENOENT and line 597 logs that status; a urb
\* whose handler is running is left to finish.
usb_kill_urb_unlink ==
  IF int_in_urb = "armed"
    THEN /\ int_in_urb' = "idle"
         /\ ev' = Completed("interrupt_handler", -ENOENT, "interrupt_handler")
    ELSE /\ UNCHANGED int_in_urb
         /\ ev' = NoEv

\* Second half: usb_kill_urb returns once the urb is not in use.
usb_kill_urb_done == int_in_urb \notin {"armed", "completing"}

(* ---- osrfx2_disconnect ---- *)
\* line 298-299.  The device lock keeps disconnect out of a suspend or
\* resume in progress.
osrfx2_disconnect_begin ==
  /\ devpc = "bound"
  /\ pmpc = "idle"
  /\ disc_fx2dev' = intfdata
  /\ intfdata' = "NULL"
  /\ devpc' = "d_dereg"
  /\ ev' = NoEv
  /\ UNCHANGED <<ctx, deleted, deletedBy, kref, interface, minor, attrFiles, int_in_urb,
                 arbVars, pending_data, urbs, attrVars, intVars, procVars>>

\* mutant: usb_deregister_dev does not wait for the opens in progress
osrfx2_disconnect_dereg_nowait ==
  /\ devpc = "d_dereg"
  /\ minor' = FALSE
  /\ IF disc_fx2dev = "NULL"
       THEN /\ devpc' = "gone"
            /\ ev' = Oops(0, "disconnect", 0, 0)
            /\ UNCHANGED interface
       ELSE /\ interface' = "NULL"
            /\ devpc' = "d_kill"
            /\ ev' = NoEv
  /\ UNCHANGED <<ctx, deleted, deletedBy, kref, intfdata, attrFiles, disc_fx2dev,
                 int_in_urb, arbVars, pending_data, urbs, attrVars, intVars, procVars>>

\* line 302-307: usb_deregister_dev waits for the opens in progress; then
\* fx2dev->interface = NULL under io_mutex, which no other handler takes.
\* With fx2dev NULL (probe's usb_register_dev failed) the lock is taken
\* through a null pointer.
osrfx2_disconnect_dereg ==
  /\ devpc = "d_dereg"
  /\ \A p \in Procs : pc[p] \notin OpenPcs
  /\ minor' = FALSE
  /\ IF disc_fx2dev = "NULL"
       THEN /\ devpc' = "gone"
            /\ ev' = Oops(0, "disconnect", 0, 0)
            /\ UNCHANGED interface
       ELSE /\ interface' = "NULL"
            /\ devpc' = "d_kill"
            /\ ev' = NoEv
  /\ UNCHANGED <<ctx, deleted, deletedBy, kref, intfdata, attrFiles, disc_fx2dev,
                 int_in_urb, arbVars, pending_data, urbs, attrVars, intVars, procVars>>

\* line 310: usb_kill_urb on the interrupt urb starts
osrfx2_disconnect_kill ==
  /\ devpc = "d_kill"
  /\ usb_kill_urb_unlink
  /\ devpc' = "d_files"
  /\ UNCHANGED <<ctx, deleted, deletedBy, kref, intfdata, interface, minor, attrFiles,
                 disc_fx2dev, arbVars, pending_data, urbs, attrVars, intVars, procVars>>

\* line 310-315: usb_kill_urb returns, device_remove_file
osrfx2_disconnect_files ==
  /\ devpc = "d_files"
  /\ usb_kill_urb_done
  /\ attrFiles' = FALSE
  /\ devpc' = "d_put"
  /\ ev' = NoEv
  /\ UNCHANGED <<ctx, deleted, deletedBy, kref, intfdata, interface, minor, disc_fx2dev,
                 int_in_urb, arbVars, pending_data, urbs, attrVars, intVars, procVars>>

\* line 318
osrfx2_disconnect_put ==
  /\ devpc = "d_put"
  /\ kref_put("disconnect")
  /\ devpc' = "gone"
  /\ ev' = Ret(0, "disconnect", 0, 0)
  /\ UNCHANGED <<intfdata, interface, minor, attrFiles, disc_fx2dev, int_in_urb,
                 arbVars, pending_data, urbs, attrVars, intVars, procVars>>

(* ---- osrfx2_write ---- *)
\* mutant: a zero-length write is treated like any other
NothingToWrite_never(n) == FALSE

\* line 513: if (!count) return count;
NothingToWrite(n) == n = 0

FreeSlots == {u \in Urbs : urbs[u] = "unused"}
FirstFree == CHOOSE u \in FreeSlots : \A v \in FreeSlots : u <= v
WriteOutcomes == {"ok", "nomem_urb", "nomem_buf", "efault", "submit"}
SubmitResults == {0} \cup SubmitErrs

ReturnOpened(p) ==
  /\ pc' = [pc EXCEPT ![p] = "opened"]
  /\ count' = [count EXCEPT ![p] = 0]
  /\ retval' = [retval EXCEPT ![p] = 0]
  /\ tmp' = [tmp EXCEPT ![p] = 0]

\* line 504-556: everything up to and including usb_submit_urb and its
\* failure path.  o is the step that fails ("ok": none), s the status of
\* usb_submit_urb; crash chooses the outcome of a dereference of a null
\* pointer.
osrfx2_write_submit(p, n, o, s, crash) ==
  /\ pc[p] = "opened"
  /\ WantsWrite(flags[p])
  /\ UNCHANGED <<devpc, ctxVars, arbVars, pending_data, attrVars, intVars, flags, eff>>
  /\ (s # 0) <=> (o = "submit")
  /\ IF NothingToWrite(n)
       THEN /\ o = "ok" /\ ~crash
            /\ ev' = Ret(p, "write", 0, 0)
            /\ UNCHANGED <<urbs, pc, count, retval, tmp>>
       ELSE CASE o = "nomem_urb" ->
                   \* line 518-523: urb->transfer_dma is read with urb == NULL
                   /\ ev' = IF crash THEN Oops(p, "write", n, -ENOMEM) ELSE Ret(p, "write", n, -ENOMEM)
                   /\ UNCHANGED <<urbs, pc, count, retval, tmp>>
              [] o = "nomem_buf" ->
                   \* line 528-533
                   /\ ~crash
                   /\ ev' = Ret(p, "write", n, -ENOMEM)
                   /\ UNCHANGED <<urbs, pc, count, retval, tmp>>
              [] o = "efault" ->
                   \* line 536-541: the buffer is allocated and freed again
                   /\ ~crash
                   /\ FreeSlots # {}
                   /\ ev' = Ret(p, "write", n, -EFAULT)
                   /\ UNCHANGED <<urbs, pc, count, retval, tmp>>
              [] o = "submit" ->
                   \* line 551-556: dev_err(&fx2dev->interface->dev, ...) first
                   /\ FreeSlots # {}
                   /\ IF interface = "NULL"
                        THEN IF crash
                               THEN /\ ev' = Oops(p, "write", n, s)
                                    /\ urbs' = [urbs EXCEPT ![FirstFree] = "leaked"]
                               ELSE /\ ev' = RetLog(p, "write", n, s, "garbage")
                                    /\ UNCHANGED urbs
                        ELSE /\ ~crash
                             /\ ev' = RetLog(p, "write", n, s, "osrfx2_write")
                             /\ UNCHANGED urbs
                   /\ UNCHANGED <<pc, count, retval, tmp>>
              [] o = "ok" ->
                   \* line 549: the urb is in flight
                   /\ ~crash
                   /\ FreeSlots # {}
                   /\ urbs' = [urbs EXCEPT ![FirstFree] = "inflight"]
                   /\ pc' = [pc EXCEPT ![p] = "w_load"]
                   /\ count' = [count EXCEPT ![p] = n]
                   /\ ev' = NoEv
                   /\ UNCHANGED <<retval, tmp>>

\* line 559: fx2dev->pending_data += count, the load
osrfx2_write_load(p) ==
  /\ pc[p] = "w_load"
  /\ tmp' = [tmp EXCEPT ![p] = pending_data]
  /\ pc' = [pc EXCEPT ![p] = "w_store"]
  /\ ev' = NoEv
  /\ UNCHANGED <<devpc, ctxVars, arbVars, pending_data, urbs, attrVars, intVars, flags, count,
                 retval, eff>>

\* line 559-564: the store, usb_free_urb, return count
osrfx2_write_store(p) ==
  /\ pc[p] = "w_store"
  /\ pending_data' = (tmp[p] + count[p]) % SizeModulus
  /\ ev' = Ret(p, "write", count[p], count[p])
  /\ ReturnOpened(p)
  /\ UNCHANGED <<devpc, ctxVars, arbVars, urbs, attrVars, intVars, flags, eff>>

(* ---- write_bulk_callback ---- *)
TeardownStatuses == {-ENOENT, -ECONNRESET, -ESHUTDOWN}

\* line 567-576.  dev_err reads fx2dev->interface->dev: through freed memory
\* when the context is gone, through a null pointer after disconnect; crash
\* chooses what that read does.
write_bulk_callback(u, s, crash) ==
  /\ urbs[u] = "inflight"
  /\ IF s # 0 /\ s \notin TeardownStatuses
       THEN IF ctx # "live" \/ interface = "NULL"
              THEN IF crash
                     THEN /\ ev' = Oops(0, "write_bulk_callback", 0, s)
                          /\ urbs' = [urbs EXCEPT ![u] = "leaked"]
                     ELSE /\ ev' = Completed("write_bulk_callback", s, "garbage")
                          /\ urbs' = [urbs EXCEPT ![u] = "unused"]
              ELSE /\ ~crash
                   /\ ev' = Completed("write_bulk_callback", s, "write_bulk_callback")
                   /\ urbs' = [urbs EXCEPT ![u] = "unused"]
       ELSE /\ ~crash
            /\ ev' = Completed("write_bulk_callback", s, "none")
            /\ urbs' = [urbs EXCEPT ![u] = "unused"]
  /\ UNCHANGED <<devpc, ctxVars, arbVars, pending_data, attrVars, intVars, procVars>>

(* ---- osrfx2_read ---- *)
Min(a, b) == IF a < b THEN a ELSE b
BulkMsgOutcomes == {0} \cup BulkMsgErrs

\* line 483-494: usb_bulk_msg of min(bulk_in_size, count) bytes, then
\* copy_to_user.  s is the status, k the bytes received, fault whether the
\* copy to the caller fails.
osrfx2_read_msg(p, n, s, k, fault) ==
  /\ pc[p] = "opened"
  /\ WantsRead(flags[p])
  /\ k \in 0..Min(BulkInSize, n)
  /\ fault => k > 0
  /\ IF s # 0
       THEN /\ k = 0 /\ ~fault
            /\ ev' = Ret(p, "read", n, s)
            /\ UNCHANGED <<pc, count, retval>>
       ELSE /\ retval' = [retval EXCEPT ![p] = IF fault THEN -EFAULT ELSE k]
            /\ count' = [count EXCEPT ![p] = n]
            /\ pc' = [pc EXCEPT ![p] = "r_load"]
            /\ ev' = NoEv
  /\ UNCHANGED <<devpc, ctxVars, arbVars, pending_data, urbs, attrVars, intVars, flags, tmp, eff>>

\* line 497: fx2dev->pending_data -= retval, the load
osrfx2_read_load(p) ==
  /\ pc[p] = "r_load"
  /\ tmp' = [tmp EXCEPT ![p] = pending_data]
  /\ pc' = [pc EXCEPT ![p] = "r_store"]
  /\ ev' = NoEv
  /\ UNCHANGED <<devpc, ctxVars, arbVars, pending_data, urbs, attrVars, intVars, flags, count,
                 retval, eff>>

\* line 497-500: the store, return retval
osrfx2_read_store(p) ==
  /\ pc[p] = "r_store"
  /\ pending_data' = (tmp[p] - retval[p]) % SizeModulus
  /\ ev' = Ret(p, "read", count[p], retval[p])
  /\ ReturnOpened(p)
  /\ UNCHANGED <<devpc, ctxVars, arbVars, urbs, attrVars, intVars, flags, eff>>


Next ==
  \/ \E o \in ProbeOutcomes : osrfx2_probe(o)
  \/ \E p \in Procs, f \in OpenFlags : osrfx2_open_find(p, f)
  \/ \E p \in Procs : osrfx2_open_intfdata(p)
  \/ \E p \in Procs, r \in ClearHaltResults : osrfx2_open_wdec(p, r)
  \/ \E p \in Procs : osrfx2_open_winc(p)
  \/ \E p \in Procs, r \in ClearHaltResults : osrfx2_open_rdec(p, r)
  \/ \E p \in Procs : osrfx2_open_rinc(p)
  \/ \E p \in Procs : osrfx2_open_rwinc(p)
  \/ \E p \in Procs : osrfx2_open_kref(p)
  \/ \E p \in Procs : osrfx2_release(p)
  \/ \E p \in Procs, n \in 0..MaxCount, o \in WriteOutcomes, s \in SubmitResults,
        crash \in BOOLEAN : osrfx2_write_submit(p, n, o, s, crash)
  \/ \E p \in Procs : osrfx2_write_load(p)
  \/ \E p \in Procs : osrfx2_write_store(p)
  \/ \E u \in Urbs, s \in UrbStatuses, crash \in BOOLEAN : write_bulk_callback(u, s, crash)
  \/ \E p \in Procs, n \in 0..MaxCount, s \in BulkMsgOutcomes, k \in 0..BulkInSize,
        fault \in BOOLEAN : osrfx2_read_msg(p, n, s, k, fault)
  \/ \E p \in Procs : osrfx2_read_load(p)
  \/ \E p \in Procs : osrfx2_read_store(p)
  \/ osrfx2_disconnect_begin
  \/ osrfx2_disconnect_dereg
  \/ osrfx2_disconnect_kill
  \/ osrfx2_disconnect_files
  \/ osrfx2_disconnect_put

Spec == Init /\ [][Next]_vars

\* Device lifetime and the access arbiter alone: the handlers that touch the
\* permits and the reference count.
NextArb ==
  \/ \E o \in ProbeOutcomes : osrfx2_probe(o)
  \/ \E p \in Procs, f \in OpenFlags : osrfx2_open_find(p, f)
  \/ \E p \in Procs : osrfx2_open_intfdata(p)
  \/ \E p \in Procs, r \in ClearHaltResults : osrfx2_open_wdec(p, r)
  \/ \E p \in Procs : osrfx2_open_winc(p)
  \/ \E p \in Procs, r \in ClearHaltResults : osrfx2_open_rdec(p, r)
  \/ \E p \in Procs : osrfx2_open_rinc(p)
  \/ \E p \in Procs : osrfx2_open_rwinc(p)
  \/ \E p \in Procs : osrfx2_open_kref(p)
  \/ \E p \in Procs : osrfx2_release(p)
  \/ osrfx2_disconnect_begin
  \/ osrfx2_disconnect_dereg
  \/ osrfx2_disconnect_kill
  \/ osrfx2_disconnect_files
  \/ osrfx2_disconnect_put

SpecArb == Init /\ [][NextArb]_vars

(***************************************************************************)
(* Power state and the sysfs attributes                                    *)
(***************************************************************************)
\* bitwise and / or of two naturals
RECURSIVE BitAnd(_, _)
BitAnd(a, b) ==
  IF a = 0 \/ b = 0 THEN 0
  ELSE (a % 2) * (b % 2) + 2 * BitAnd(a \div 2, b \div 2)

RECURSIVE BitOr(_, _)
BitOr(a, b) ==
  IF a = 0 THEN b
  ELSE IF b = 0 THEN a
  ELSE (IF a % 2 = 1 \/ b % 2 = 1 THEN 1 ELSE 0) + 2 * BitOr(a \div 2, b \div 2)

Shr(v, n) == v \div (2^n)
Shl(v, n) == v * (2^n)

\* the characters an attribute write can carry
Digits == {"0", "1", "2", "3", "4", "5", "6", "7", "8", "9"}
DigitVal(c) ==
  CASE c = "0" -> 0 [] c = "1" -> 1 [] c = "2" -> 2 [] c = "3" -> 3 [] c = "4" -> 4
    [] c = "5" -> 5 [] c = "6" -> 6 [] c = "7" -> 7 [] c = "8" -> 8 [] c = "9" -> 9

\* what user space writes into bargraph and 7segment
AttrInputs == { <<"0">>, <<"8">>, <<"2", "5", "5">>, <<"2", "5", "6">>, <<"2", "5", "7">>,
                <<"x">>, <<"8", "x">> }

\* the decimal text of a number, as user space writes it
DigitChar(d) ==
  CASE d = 0 -> "0" [] d = 1 -> "1" [] d = 2 -> "2" [] d = 3 -> "3" [] d = 4 -> "4"
    [] d = 5 -> "5" [] d = 6 -> "6" [] d = 7 -> "7" [] d = 8 -> "8" [] d = 9 -> "9"

RECURSIVE Decimal(_)
Decimal(v) ==
  IF v < 10 THEN <<DigitChar(v)>> ELSE Append(Decimal(v \div 10), DigitChar(v % 10))

\* every in-range value, for the bit tables
RemapInputs == { Decimal(v) : v \in 0..255 }

\* simple_strtoul(buf, &end, 10): the number of leading decimal digits
\* consumed (end - buf) and their value
RECURSIVE NumDigits(_)
NumDigits(buf) ==
  IF buf = <<>> \/ Head(buf) \notin Digits THEN 0 ELSE 1 + NumDigits(Tail(buf))

RECURSIVE DigitsValue(_, _)
DigitsValue(buf, acc) ==
  IF buf = <<>> \/ Head(buf) \notin Digits THEN acc
  ELSE DigitsValue(Tail(buf), acc * 10 + DigitVal(Head(buf)))

simple_strtoul(buf) == DigitsValue(buf, 0)

\* mutant: the value is masked to seven bits
ParseValue_mask7(buf) ==
  IF NumDigits(buf) = 0 THEN 0 ELSE BitAnd(simple_strtoul(buf), 127)

\* line 663-665 and 742-744: value = simple_strtoul(...) & 0xFF; 0 if no digit
ParseValue(buf) ==
  IF NumDigits(buf) = 0 THEN 0 ELSE BitAnd(simple_strtoul(buf), 255)

\* line 668-679: the LED byte sent for a value
LedsFromValue(value) ==
  IF value > 255 THEN 0
  ELSE BitOr(BitOr(BitOr(BitOr(BitOr(BitOr(BitOr(
         BitAnd(Shr(value, 3), 1),
         BitAnd(Shr(value, 3), 2)),
         BitAnd(Shr(value, 3), 4)),
         BitAnd(Shr(value, 3), 8)),
         BitAnd(Shr(value, 3), 16)),
         BitAnd(Shl(value, 5), 32)),
         BitAnd(Shl(value, 5), 64)),
         BitAnd(Shl(value, 5), 128))

\* line 747-758: the 7-segment byte sent for a value
SegmentsFromValue(value) ==
  IF value > 255 THEN 0
  ELSE BitOr(BitOr(BitOr(BitOr(BitOr(BitOr(BitOr(
         BitAnd(value, 1),
         BitAnd(value, 2)),
         BitAnd(value, 4)),
         BitAnd(Shr(value, 4), 8)),
         BitAnd(value, 16)),
         BitAnd(Shr(value, 1), 32)),
         BitAnd(Shl(value, 1), 64)),
         BitAnd(Shl(value, 4), 128))

\* sprintf("%s%s%s%s%s%s%s%s", (v & m1) ? "1" : "0", ...)
FormatBits(v, masks) == [i \in 1..8 |-> IF BitAnd(v, masks[i]) # 0 THEN "1" ELSE "0"]
\* mutant: the LED bits are printed in register order
BargraphMasks_plain == <<128, 64, 32, 16, 8, 4, 2, 1>>
\* line 638-646
BargraphMasks == <<16, 8, 4, 2, 1, 128, 64, 32>>
\* line 717-725
SegmentMasks == <<8, 32, 64, 16, 128, 4, 2, 1>>
\* mutant: a suspended device reports nothing
SuspendedText_mute == <<>>
\* line 626 and 700
SuspendedText == <<"S", " ">>

\* usb_control_msg: bytes transferred or a negative status
CtrlInResults == {0, 1} \cup CtrlMsgErrs
CtrlOutResults == {1} \cup CtrlMsgErrs

\* an attribute handler's event: arg is what usb_control_msg returned (0 when
\* none was sent), buf the text read or written
AttrRet(o, r, v, l, b) == [RetLog(0, o, r, v, l) EXCEPT !.buf = b]

\* the attribute files exist; fx2dev = usb_get_intfdata(intf) is used
\* unchecked, so a NULL or a freed context crashes the handler
AttrCallable == attrFiles
AttrCrashes == intfdata = "NULL" \/ ctx # "live"
AttrCrash(o) ==
  /\ ev' = Oops(0, o, 0, 0)
  /\ UNCHANGED attrVars

\* line 620-649
get_bargraph(r) ==
  /\ AttrCallable
  /\ IF AttrCrashes
       THEN r = 1 /\ AttrCrash("get_bargraph")
       ELSE IF suspended
         THEN /\ r = 1
              /\ ev' = AttrRet("get_bargraph", 0, Len(SuspendedText), "none", SuspendedText)
              /\ UNCHANGED attrVars
         ELSE /\ leds' = IF r = 1 THEN hwLeds ELSE 0
              /\ ev' = AttrRet("get_bargraph", r, 8, "none", FormatBits(leds', BargraphMasks))
              /\ UNCHANGED <<suspended, segments, hwLeds, hwSegs>>
  /\ UNCHANGED <<devpc, ctxVars, arbVars, pending_data, urbs, procVars, intVars>>

\* mutant: a failed control write is returned to the caller
set_bargraph_ret_err(cnt, r) == IF r < 0 THEN r ELSE cnt

\* line 690: return count
set_bargraph_ret(cnt, r) == cnt

\* line 652-691
set_bargraph(buf, r) ==
  /\ AttrCallable
  /\ IF AttrCrashes
       THEN r = 1 /\ buf = <<"0">> /\ AttrCrash("set_bargraph")
       ELSE /\ leds' = LedsFromValue(ParseValue(buf))
            /\ hwLeds' = IF r >= 0 THEN leds' ELSE hwLeds
            /\ ev' = AttrRet("set_bargraph", r, set_bargraph_ret(Len(buf), r),
                             IF r < 0 THEN "set_bargraph" ELSE "none", buf)
            /\ UNCHANGED <<suspended, segments, hwSegs>>
  /\ UNCHANGED <<devpc, ctxVars, arbVars, pending_data, urbs, procVars, intVars>>

\* line 694-728
get_7segment(r) ==
  /\ AttrCallable
  /\ IF AttrCrashes
       THEN r = 1 /\ AttrCrash("get_7segment")
       ELSE IF suspended
         THEN /\ r = 1
              /\ ev' = AttrRet("get_7segment", 0, Len(SuspendedText), "none", SuspendedText)
              /\ UNCHANGED attrVars
         ELSE /\ segments' = IF r = 1 THEN hwSegs ELSE 0
              /\ ev' = IF r < 0
                         THEN AttrRet("get_7segment", r, r, "get_7segment", <<>>)
                         ELSE AttrRet("get_7segment", r, 8, "none",
                                      FormatBits(segments', SegmentMasks))
              /\ UNCHANGED <<suspended, leds, hwLeds, hwSegs>>
  /\ UNCHANGED <<devpc, ctxVars, arbVars, pending_data, urbs, procVars, intVars>>

\* line 769: return count
set_7segment_ret(cnt, r) == cnt

\* line 731-770
set_7segment(buf, r) ==
  /\ AttrCallable
  /\ IF AttrCrashes
       THEN r = 1 /\ buf = <<"0">> /\ AttrCrash("set_7segment")
       ELSE /\ segments' = SegmentsFromValue(ParseValue(buf))
            /\ hwSegs' = IF r >= 0 THEN segments' ELSE hwSegs
            /\ ev' = AttrRet("set_7segment", r, set_7segment_ret(Len(buf), r),
                             IF r < 0 THEN "set_7segment" ELSE "none", buf)
            /\ UNCHANGED <<suspended, leds, hwLeds>>
  /\ UNCHANGED <<devpc, ctxVars, arbVars, pending_data, urbs, procVars, intVars>>

\* get_bargraph and get_7segment step by step, for the interleavings with
\* suspend: neither takes fx2dev->sem, so the test of the flag and the
\* control transfer are separate steps.
\* line 620-629: test fx2dev->suspended, clear fx2dev->leds
get_bargraph_test ==
  /\ AttrCallable
  /\ apc = "idle"
  /\ IF AttrCrashes
       THEN AttrCrash("get_bargraph") /\ UNCHANGED apc
       ELSE IF suspended
         THEN /\ ev' = AttrRet("get_bargraph", 0, Len(SuspendedText), "none", SuspendedText)
              /\ UNCHANGED <<attrVars, apc>>
         ELSE /\ leds' = 0
              /\ apc' = "gb_xfer"
              /\ ev' = NoEv
              /\ UNCHANGED <<suspended, segments, hwLeds, hwSegs>>
  /\ UNCHANGED <<devpc, ctxVars, arbVars, pending_data, urbs, procVars, switches,
                 int_in_buffer, ihpc, pmpc>>

\* line 632-648: usb_control_msg(READ_LEDS) returns r, the text is formatted
get_bargraph_xfer(r) ==
  /\ apc = "gb_xfer"
  /\ apc' = "idle"
  /\ leds' = IF r = 1 THEN hwLeds ELSE leds
  /\ ev' = AttrRet("get_bargraph", r, 8, "none", FormatBits(leds', BargraphMasks))
  /\ UNCHANGED <<devpc, ctxVars, arbVars, pending_data, urbs, procVars, switches,
                 int_in_buffer, ihpc, pmpc, suspended, segments, hwLeds, hwSegs>>

\* line 694-703: test fx2dev->suspended, clear fx2dev->segments
get_7segment_test ==
  /\ AttrCallable
  /\ apc = "idle"
  /\ IF AttrCrashes
       THEN AttrCrash("get_7segment") /\ UNCHANGED apc
       ELSE IF suspended
         THEN /\ ev' = AttrRet("get_7segment", 0, Len(SuspendedText), "none", SuspendedText)
              /\ UNCHANGED <<attrVars, apc>>
         ELSE /\ segments' = 0
              /\ apc' = "g7_xfer"
              /\ ev' = NoEv
              /\ UNCHANGED <<suspended, leds, hwLeds, hwSegs>>
  /\ UNCHANGED <<devpc, ctxVars, arbVars, pending_data, urbs, procVars, switches,
                 int_in_buffer, ihpc, pmpc>>

\* line 706-727: usb_control_msg(READ_7SEG) returns r; an error is logged
\* and returned, else the text is formatted
get_7segment_xfer(r) ==
  /\ apc = "g7_xfer"
  /\ apc' = "idle"
  /\ segments' = IF r = 1 THEN hwSegs ELSE segments
  /\ ev' = IF r < 0
             THEN AttrRet("get_7segment", r, r, "get_7segment", <<>>)
             ELSE AttrRet("get_7segment", r, 8, "none",
                          FormatBits(segments', SegmentMasks))
  /\ UNCHANGED <<devpc, ctxVars, arbVars, pending_data, urbs, procVars, switches,
                 int_in_buffer, ihpc, pmpc, suspended, leds, hwLeds, hwSegs>>

\* line 342-356.  The USB core suspends a bound interface that is not
\* suspended; interrupted: down_interruptible was interrupted by a signal.
osrfx2_suspend(interrupted) ==
  /\ devpc = "bound"
  /\ pmpc = "idle"
  /\ ~suspended
  /\ IF intfdata = "NULL"
       THEN /\ ~interrupted
            /\ ev' = Oops(0, "suspend", 0, 0)
            /\ UNCHANGED <<suspended, int_in_urb, pmpc>>
       ELSE IF interrupted
         THEN /\ ev' = Ret(0, "suspend", 0, -ERESTARTSYS)
              /\ UNCHANGED <<suspended, int_in_urb, pmpc>>
         ELSE \* line 348-351: the flag is set, usb_kill_urb starts
              /\ suspended' = TRUE
              /\ usb_kill_urb_unlink
              /\ pmpc' = "s_kill"
  /\ UNCHANGED <<devpc, ctx, deleted, deletedBy, kref, intfdata, interface, minor,
                 attrFiles, disc_fx2dev, arbVars, pending_data, urbs, leds, segments,
                 hwLeds, hwSegs, switches, int_in_buffer, ihpc, apc, procVars>>

\* mutant: the urb is unlinked without waiting for it (usb_unlink_urb)
osrfx2_suspend_return_nowait ==
  /\ pmpc = "s_kill"
  /\ pmpc' = "idle"
  /\ ev' = Ret(0, "suspend", 0, 0)
  /\ UNCHANGED <<devpc, ctxVars, arbVars, pending_data, urbs, attrVars, switches,
                 int_in_buffer, ihpc, apc, procVars>>

\* line 351-355: usb_kill_urb returns, up, return 0
osrfx2_suspend_return ==
  /\ pmpc = "s_kill"
  /\ usb_kill_urb_done
  /\ pmpc' = "idle"
  /\ ev' = Ret(0, "suspend", 0, 0)
  /\ UNCHANGED <<devpc, ctxVars, arbVars, pending_data, urbs, attrVars, switches,
                 int_in_buffer, ihpc, apc, procVars>>

\* line 359-388.  The USB core resumes an interface it has suspended; r is
\* what usb_submit_urb returns.
ResumeSubmitResults == {0, -ENODEV, -EHOSTUNREACH}

\* mutant: resume re-arms the listener and leaves the flag set
osrfx2_resume_keepflag(interrupted, r) ==
  /\ devpc = "bound"
  /\ pmpc = "idle"
  /\ suspended
  /\ IF interrupted
       THEN /\ r = 0
            /\ ev' = Ret(0, "resume", 0, -ERESTARTSYS)
            /\ UNCHANGED <<suspended, int_in_urb>>
       ELSE /\ UNCHANGED suspended
            /\ int_in_urb' = IF r = 0 THEN "armed" ELSE int_in_urb
            /\ ev' = RetLog(0, "resume", 0, 0, IF r # 0 THEN "osrfx2_resume" ELSE "none")
  /\ UNCHANGED <<devpc, ctx, deleted, deletedBy, kref, intfdata, interface, minor,
                 attrFiles, disc_fx2dev, arbVars, pending_data, urbs, leds, segments,
                 hwLeds, hwSegs, intVars, procVars>>

osrfx2_resume(interrupted, r) ==
  /\ devpc = "bound"
  /\ pmpc = "idle"
  /\ suspended
  /\ IF interrupted
       THEN /\ r = 0
            /\ ev' = Ret(0, "resume", 0, -ERESTARTSYS)
            /\ UNCHANGED <<suspended, int_in_urb>>
       ELSE /\ suspended' = FALSE
            /\ int_in_urb' = IF r = 0 THEN "armed" ELSE int_in_urb
            /\ ev' = RetLog(0, "resume", 0, 0, IF r # 0 THEN "osrfx2_resume" ELSE "none")
  /\ UNCHANGED <<devpc, ctx, deleted, deletedBy, kref, intfdata, interface, minor,
                 attrFiles, disc_fx2dev, arbVars, pending_data, urbs, leds, segments,
                 hwLeds, hwSegs, intVars, procVars>>

NextAttr ==
  \/ \E o \in ProbeOutcomes : osrfx2_probe(o)
  \/ \E i \in BOOLEAN : osrfx2_suspend(i)
  \/ osrfx2_suspend_return
  \/ \E i \in BOOLEAN, r \in ResumeSubmitResults : osrfx2_resume(i, r)
  \/ \E r \in CtrlInResults : get_bargraph(r)
  \/ \E b \in AttrInputs, r \in CtrlOutResults : set_bargraph(b, r)
  \/ \E r \in CtrlInResults : get_7segment(r)
  \/ \E b \in AttrInputs, r \in CtrlOutResults : set_7segment(b, r)
  \/ osrfx2_disconnect_begin
  \/ osrfx2_disconnect_dereg
  \/ osrfx2_disconnect_kill
  \/ osrfx2_disconnect_files
  \/ osrfx2_disconnect_put

SpecAttr == Init /\ [][NextAttr]_vars

\* Power management against the display attributes, with the attribute
\* reads taken step by step.
NextPm ==
  \/ \E o \in ProbeOutcomes : osrfx2_probe(o)
  \/ \E i \in BOOLEAN : osrfx2_suspend(i)
  \/ osrfx2_suspend_return
  \/ \E i \in BOOLEAN, r \in ResumeSubmitResults : osrfx2_resume(i, r)
  \/ get_bargraph_test
  \/ \E r \in CtrlInResults : get_bargraph_xfer(r)
  \/ get_7segment_test
  \/ \E r \in CtrlInResults : get_7segment_xfer(r)
  \/ \E b \in AttrInputs, r \in CtrlOutResults : set_bargraph(b, r)
  \/ \E b \in AttrInputs, r \in CtrlOutResults : set_7segment(b, r)

SpecPm == Init /\ [][NextPm]_vars

\* The bit tables alone: user space drives one display at a time, with every
\* in-range value, and every control transfer succeeds.
BargraphTexts == IF hwSegs = 0 THEN RemapInputs ELSE {}
SegmentTexts == IF hwLeds = 0 THEN RemapInputs ELSE {}
NextRemap ==
  \/ \E o \in {"ok"} : osrfx2_probe(o)
  \/ \E b \in BargraphTexts : set_bargraph(b, 1)
  \/ get_bargraph(1)
  \/ \E b \in SegmentTexts : set_7segment(b, 1)
  \/ get_7segment(1)

SpecRemap == Init /\ [][NextRemap]_vars

(***************************************************************************)
(* The interrupt listener and the switches attribute                       *)
(***************************************************************************)
\* the switch bytes the board reports
SwitchPayloads == {1, 129}
\* the statuses the USB core completes the interrupt urb with
IntStatuses == {0, -ENOENT, -ECONNRESET, -ESHUTDOWN, -EPIPE}

\* mutant: every completion is handled as a delivery
Delivered_always(s) == TRUE

\* line 584: if (urb->status == 0)
Delivered(s) == s = 0

\* mutant: the cached byte is left as it was
NewSwitchState_stale(buf) == switches

\* line 585: fx2dev->switches = *buf
NewSwitchState(buf) == buf

\* line 579-585 and 596-597: the USB core completes the armed urb with status
\* s and payload b and calls the handler.  After a failed probe that had
\* submitted the urb, fx2dev and the buffer are freed memory: crash chooses
\* whether touching them faults.
interrupt_handler(s, b, crash) ==
  /\ int_in_urb = "armed"
  /\ IF ctx # "live" /\ crash
       THEN /\ int_in_urb' = "idle"
            /\ ev' = Oops(0, "interrupt_handler", 0, s)
            /\ UNCHANGED <<switches, int_in_buffer, ihpc>>
       ELSE /\ (ctx = "live") => ~crash
            /\ IF Delivered(s)
                 THEN /\ int_in_buffer' = b
                      /\ switches' = NewSwitchState(b)
                      /\ ihpc' = "wake"
                      /\ int_in_urb' = "completing"
                      /\ ev' = Completed("interrupt_handler", s, "none")
                 ELSE /\ b = int_in_buffer
                      /\ int_in_urb' = "idle"
                      /\ ev' = Completed("interrupt_handler", s, "interrupt_handler")
                      /\ UNCHANGED <<switches, int_in_buffer, ihpc>>
  /\ UNCHANGED <<devpc, ctx, deleted, deletedBy, kref, intfdata, interface, minor,
                 attrFiles, disc_fx2dev, arbVars, pending_data, urbs, attrVars, pmpc,
                 apc, procVars>>

\* line 587: wake_up(&fx2dev->FieldEventQueue); the event carries the payload
\* delivered and the cached byte the woken observers find
interrupt_handler_wake ==
  /\ ihpc = "wake"
  /\ ihpc' = "submit"
  /\ ev' = [NoEv EXCEPT !.op = "interrupt_handler", !.tag = "wake_up",
                        !.arg = int_in_buffer, !.val = switches]
  /\ UNCHANGED <<devpc, ctxVars, arbVars, pending_data, urbs, attrVars, switches,
                 int_in_buffer, pmpc, apc, procVars>>

\* line 589-593: usb_submit_urb(urb, GFP_ATOMIC) returns r; a urb that is
\* being killed rejects the submission
ResubmitResults == {0} \cup SubmitErrs
interrupt_handler_submit(r) ==
  /\ ihpc = "submit"
  /\ Killing => r # 0
  /\ ihpc' = "idle"
  /\ int_in_urb' = IF r = 0 THEN "armed" ELSE "idle"
  /\ ev' = RetLog(0, "interrupt_handler", 0, r, IF r # 0 THEN "resubmit" ELSE "none")
  /\ UNCHANGED <<devpc, ctx, deleted, deletedBy, kref, intfdata, interface, minor,
                 attrFiles, disc_fx2dev, arbVars, pending_data, urbs, attrVars, switches,
                 int_in_buffer, pmpc, apc, procVars>>

\* line 606-614
SwitchMasks == <<128, 64, 32, 16, 8, 4, 2, 1>>

\* line 601-617
get_switches ==
  /\ AttrCallable
  /\ ev' = IF AttrCrashes
             THEN Oops(0, "get_switches", 0, 0)
             ELSE AttrRet("get_switches", 0, 8, "none", FormatBits(switches, SwitchMasks))
  /\ UNCHANGED <<devpc, ctxVars, arbVars, pending_data, urbs, attrVars, intVars, procVars>>

NextInt ==
  \/ \E o \in ProbeOutcomes : osrfx2_probe(o)
  \/ \E s \in IntStatuses, b \in SwitchPayloads \cup {int_in_buffer}, crash \in BOOLEAN :
        interrupt_handler(s, b, crash)
  \/ interrupt_handler_wake
  \/ \E r \in ResubmitResults : interrupt_handler_submit(r)
  \/ get_switches
  \/ \E i \in BOOLEAN : osrfx2_suspend(i)
  \/ osrfx2_suspend_return
  \/ \E i \in BOOLEAN, r \in ResumeSubmitResults : osrfx2_resume(i, r)
  \/ osrfx2_disconnect_begin
  \/ osrfx2_disconnect_dereg
  \/ osrfx2_disconnect_kill
  \/ osrfx2_disconnect_files
  \/ osrfx2_disconnect_put

SpecInt == Init /\ [][NextInt]_vars

(***************************************************************************)
(* Properties                                                              *)
(***************************************************************************)
HoldsWrite(p) == pc[p] \in SessionPcs /\ WantsWrite(flags[p])
HoldsRead(p) == pc[p] \in SessionPcs /\ WantsRead(flags[p])
Sessions == {p \in Procs : pc[p] \in SessionPcs}
\* the step just taken made caller p's handler o return or crash
Returned(p, o) == ev'.op = o /\ ev'.p = p /\ ev'.tag # "none"

\* C1: in every reachable state at most one open session holds the write
\* permit and at most one holds the read permit; an O_RDWR session holds both.
C1_OneHolderPerPermit ==
  /\ Cardinality({p \in Procs : HoldsWrite(p)}) <= 1
  /\ Cardinality({p \in Procs : HoldsRead(p)}) <= 1

\* an O_RDWR session is open and another caller's open was just refused
C1_Witness ==
  \E p, q \in Procs :
    /\ p # q
    /\ pc[p] = "opened" /\ flags[p] = "O_RDWR"
    /\ ev.op = "open" /\ ev.p = q /\ ev.val = -EBUSY

\* C2: an open(O_WRONLY) that reaches the arbiter while another O_WRONLY
\* session is open returns -EBUSY; an open(O_WRONLY) that tries the permit
\* while no session holds it and no other open is in progress gets it and
\* returns 0.  The same for O_RDONLY and the read permit.
C2_Refused(q, f, Holds(_)) ==
  (/\ Returned(q, "open") /\ ev'.arg = AccMode(f)
   /\ pc[q] \notin {"idle", "o_intfdata"}
   /\ \E p \in Procs \ {q} : Holds(p) /\ flags[p] = f)
  => ev'.tag = "ret" /\ ev'.val = -EBUSY

C2_Granted(q, f, decPc, Holds(_)) ==
  /\ (/\ pc[q] = decPc /\ pc'[q] # decPc /\ flags[q] = f
      /\ \A p \in Procs \ {q} : ~Holds(p) /\ pc[p] \notin OpenPcs)
     => pc'[q] = "o_kref"
  /\ (pc[q] = "o_kref" /\ pc'[q] # "o_kref" /\ flags[q] = f)
     => pc'[q] = "opened" /\ ev' = Ret(q, "open", AccMode(f), 0)

C2_BusyWhileHeldThenFree ==
  [][\A q \in Procs :
       /\ C2_Refused(q, "O_WRONLY", HoldsWrite)
       /\ C2_Refused(q, "O_RDONLY", HoldsRead)
       /\ C2_Granted(q, "O_WRONLY", "o_wdec", HoldsWrite)
       /\ C2_Granted(q, "O_RDONLY", "o_rdec", HoldsRead)]_vars

\* an O_WRONLY session is open and another caller's open(O_WRONLY) was
\* just refused
C2_Witness ==
  \E p, q \in Procs :
    /\ p # q
    /\ pc[p] = "opened" /\ flags[p] = "O_WRONLY"
    /\ ev = Ret(q, "open", AccMode("O_WRONLY"), -EBUSY)

\* C3: an open(O_RDWR) that returns -EBUSY has no net effect on the permits
\* and the reference count; when it failed on the write permit it never
\* touched the read permit, when it failed on the read permit it has given
\* the write permit back.
C3_BusyOpenHasNoEffect ==
  [][\A p \in Procs :
       (Returned(p, "open") /\ ev'.arg = AccMode("O_RDWR") /\ ev'.val = -EBUSY)
       => /\ eff'[p].w = 0 /\ eff'[p].r = 0 /\ eff'[p].k = 0
          /\ kref' = kref
          /\ pc[p] = "o_winc" => (~eff[p].rTouched /\ UNCHANGED bulk_read_available)
          /\ pc[p] = "o_rwinc" => bulk_write_available' = bulk_write_available + 1]_vars

\* an open(O_RDWR) was just refused because an O_RDONLY session holds the
\* read permit, and the write permit is available again
C3_Witness ==
  \E p, q \in Procs :
    /\ p # q
    /\ pc[p] = "opened" /\ flags[p] = "O_RDONLY"
    /\ ev = Ret(q, "open", AccMode("O_RDWR"), -EBUSY)
    /\ pc[q] = "idle"
    /\ bulk_write_available = 1

\* C4: osrfx2_delete runs at most once, has run exactly when the reference
\* count of the created context is zero, and has not run while a session is
\* open: with a session open at disconnect the context lives until the last
\* close.
C4_DestroyedOnceAtZero ==
  /\ deleted <= 1
  /\ (deleted = 1) <=> (ctx # "none" /\ kref = 0)
  /\ (deleted = 1) <=> (ctx = "freed")
  /\ deleted = 1 => Sessions = {}
  /\ (devpc = "gone" /\ Sessions # {}) => ctx = "live"

\* the device was disconnected with a session open and the close of that
\* session destroyed the context
C4_Witness ==
  /\ devpc = "gone"
  /\ deleted = 1 /\ deletedBy = "release"
  /\ ev.op = "release"

\* C5: while a bulk write is in flight the context has a reference and is
\* not destroyed.
C5_InFlightHoldsReference ==
  (\E u \in Urbs : urbs[u] = "inflight") => (kref >= 1 /\ ctx = "live")

\* C6: a write of 0 bytes returns 0 at once and changes nothing of the
\* device context: no urb, no buffer, pending_data as before.
C6_ZeroWriteNoEffect ==
  [][\A p \in Procs :
       (Returned(p, "write") /\ ev'.arg = 0)
       => /\ pc[p] = "opened" /\ pc'[p] = "opened"
          /\ ev'.tag = "ret" /\ ev'.val = 0
          /\ UNCHANGED <<ctxVars, arbVars, pending_data, urbs, attrVars, intVars>>]_vars

\* a write of 0 bytes has just returned while an earlier write is in flight
C6_Witness ==
  /\ ev.op = "write" /\ ev.arg = 0 /\ ev.tag = "ret" /\ ev.val = 0
  /\ \E u \in Urbs : urbs[u] = "inflight"
  /\ pending_data # 0

\* C7: a write of n > 0 bytes whose submission succeeds returns n and adds
\* n to pending_data; one whose submission fails returns the status, has
\* released its buffer and leaves pending_data alone.
C7_WriteOutcome ==
  [][\A p \in Procs :
       (Returned(p, "write") /\ ev'.arg > 0)
       => /\ pc[p] = "w_store"
             => /\ ev'.tag = "ret" /\ ev'.val = ev'.arg
                /\ pending_data' = (tmp[p] + ev'.arg) % SizeModulus
          /\ (pc[p] = "opened" /\ ev'.val \in SubmitErrs)
             => /\ ev'.tag = "ret"
                /\ UNCHANGED <<urbs, pending_data>>]_vars

\* C8: a read changes pending_data by minus the number of bytes it returns;
\* a read that returns an error leaves pending_data unchanged.
C8_ReadAccounting ==
  [][\A p \in Procs :
       Returned(p, "read")
       => IF ev'.val >= 0
            THEN pending_data' = (tmp[p] - ev'.val) % SizeModulus
            ELSE UNCHANGED pending_data]_vars

AttrGets == {"get_bargraph", "get_7segment"}
AttrSets == {"set_bargraph", "set_7segment"}

\* C9: an attribute read whose vendor IN control transfer failed returns the
\* transfer's error and no text, for bargraph and for 7segment.
C9_GetFailsWithTransfer ==
  (ev.op \in AttrGets /\ ev.tag = "ret" /\ ev.arg < 0)
  => (ev.val = ev.arg /\ ev.buf = <<>>)

\* C10: an attribute write returns the length of its input whether or not
\* the vendor OUT control transfer succeeded; a failed transfer is logged
\* and nothing else.
C10_SetReportsSuccess ==
  (ev.op \in AttrSets /\ ev.tag = "ret")
  => /\ ev.val = Len(ev.buf)
     /\ (ev.arg < 0) <=> (ev.log = ev.op)
     /\ (ev.arg >= 0) <=> (ev.log = "none")

\* a bargraph write whose control transfer failed has just returned: the
\* board still shows the previous value
C10_Witness ==
  /\ ev.op = "set_bargraph" /\ ev.tag = "ret" /\ ev.arg < 0
  /\ ev.val = Len(ev.buf) /\ ev.log = "set_bargraph"
  /\ hwLeds # leds

\* C11: while the device is suspended a read of bargraph or of 7segment
\* returns the two characters "S " whatever the board holds; when it is not
\* suspended (again, after a resume) a read whose control transfer succeeded
\* returns the eight characters that get's bit table makes of the board's
\* register.
C11_SentinelWhileSuspended ==
  (ev.op \in AttrGets /\ ev.tag = "ret")
  => IF suspended
       THEN ev.val = 2 /\ ev.buf = <<"S", " ">>
       ELSE ev.arg = 1
            => /\ ev.val = 8
               /\ ev.op = "get_bargraph" => ev.buf = FormatBits(hwLeds, BargraphMasks)
               /\ ev.op = "get_7segment" => ev.buf = FormatBits(hwSegs, SegmentMasks)

\* a bargraph read returns the board's non-zero value after the device has
\* been suspended and resumed: with no interrupt delivery in SpecAttr, the
\* listener is idle on a device that is not suspended only after a resume
\* whose resubmission failed
C11_Witness ==
  /\ devpc = "bound" /\ ~suspended /\ int_in_urb = "idle"
  /\ ev.op = "get_bargraph" /\ ev.tag = "ret" /\ ev.arg = 1
  /\ hwLeds # 0 /\ ev.buf = FormatBits(hwLeds, BargraphMasks)

\* the eight binary digits of a byte, most significant first
Binary8(v) == [i \in 1..8 |-> IF (v \div 2^(8 - i)) % 2 = 1 THEN "1" ELSE "0"]

\* an attribute write of the decimal text of an in-range value
InRangeText(buf) ==
  buf # <<>> /\ NumDigits(buf) = Len(buf) /\ simple_strtoul(buf) <= 255

\* C12: for every value v in 0..255 and for both tables, a write of v
\* followed by a read returns the binary representation of v, most
\* significant bit first: get's table undoes set's table.
C12_RemapRoundTrip ==
  [][/\ ( /\ ev.op = "set_bargraph" /\ ev.tag = "ret" /\ ev.arg >= 0
          /\ InRangeText(ev.buf) /\ ~suspended
          /\ ev'.op = "get_bargraph" /\ ev'.tag = "ret" /\ ev'.arg = 1 )
        => ev'.buf = Binary8(simple_strtoul(ev.buf))
     /\ ( /\ ev.op = "set_7segment" /\ ev.tag = "ret" /\ ev.arg >= 0
          /\ InRangeText(ev.buf) /\ ~suspended
          /\ ev'.op = "get_7segment" /\ ev'.tag = "ret" /\ ev'.arg = 1 )
        => ev'.buf = Binary8(simple_strtoul(ev.buf))]_vars

\* 7segment was set to 8, the board holds 128 and the read returns 00001000
C12_Witness ==
  /\ ev.op = "get_7segment" /\ ev.tag = "ret" /\ ev.arg = 1
  /\ hwSegs = 128 /\ ev.buf = Binary8(8)

\* C13: a write of a decimal value of 256 or more to bargraph or to 7segment
\* sends 0 to the board (the value is forced to 0, not reduced modulo 256).
C13_OutOfRangeForcedToZero ==
  ( /\ ev.op \in AttrSets /\ ev.tag = "ret" /\ ev.arg >= 0
    /\ NumDigits(ev.buf) > 0 /\ simple_strtoul(ev.buf) >= 256 )
  => /\ ev.op = "set_bargraph" => hwLeds = 0
     /\ ev.op = "set_7segment" => hwSegs = 0

\* C14: a bargraph write with no leading decimal digit sends 0, as a write of
\* "0" does, and a following read returns 00000000; a write of 255 makes a
\* following read return 11111111 (reads of a device that is not suspended
\* whose control transfer succeeded).
C14_NonNumericIsZero ==
  [][/\ ( /\ ev'.op = "set_bargraph" /\ ev'.tag = "ret" /\ ev'.arg >= 0
          /\ NumDigits(ev'.buf) = 0 )
        => (leds' = 0 /\ hwLeds' = 0 /\ leds' = LedsFromValue(ParseValue(<<"0">>)))
     /\ ( /\ ev.op = "set_bargraph" /\ ev.tag = "ret" /\ ev.arg >= 0 /\ ~suspended
          /\ ev'.op = "get_bargraph" /\ ev'.tag = "ret" /\ ev'.arg = 1 )
        => /\ (NumDigits(ev.buf) = 0 \/ ev.buf = <<"0">>)
                => ev'.buf = <<"0", "0", "0", "0", "0", "0", "0", "0">>
           /\ ev.buf = <<"2", "5", "5">>
                => ev'.buf = <<"1", "1", "1", "1", "1", "1", "1", "1">>]_vars

\* a bargraph write of "x" has blanked the LEDs
C14_Witness ==
  /\ ev.op = "set_bargraph" /\ ev.tag = "ret" /\ ev.arg >= 0 /\ ev.buf = <<"x">>
  /\ leds = 0 /\ hwLeds = 0

\* C15: a successful interrupt delivery stores the payload in the cached
\* switches byte before it notifies: at the notification the cached byte is
\* the payload just delivered, a switches read that follows the notification
\* returns that payload, and every switches read returns the latest payload
\* delivered.
C15_NotifyAfterUpdate ==
  [][/\ (ev'.op = "interrupt_handler" /\ ev'.tag = "wake_up")
        => (switches' = ev'.arg /\ ev'.val = ev'.arg)
     /\ ( /\ ev.op = "interrupt_handler" /\ ev.tag = "wake_up"
          /\ ev'.op = "get_switches" /\ ev'.tag = "ret" )
        => ev'.buf = Binary8(ev.arg)
     /\ (ev'.op = "get_switches" /\ ev'.tag = "ret")
        => ev'.buf = Binary8(int_in_buffer)]_vars

\* switches is read between the notification and the resubmission and shows
\* the payload 129 just delivered
C15_Witness ==
  /\ ihpc = "submit" /\ int_in_buffer = 129
  /\ ev.op = "get_switches" /\ ev.tag = "ret" /\ ev.buf = Binary8(129)

\* the listener has a urb submitted or its handler running
ListenerArmed == int_in_urb \in {"armed", "completing"}

\* C16: a completion with a non-zero status leaves the listener unarmed and
\* the cached switches byte unchanged, and an unarmed listener stays so,
\* with the byte unchanged, until a resume submits the urb again.
C16_DormantAfterFailure ==
  [][/\ (ev'.op = "interrupt_handler" /\ ev'.tag = "status" /\ ev'.val # 0)
        => (~ListenerArmed' /\ ihpc' = "idle" /\ switches' = switches)
     /\ (devpc # "unprobed" /\ ~ListenerArmed)
        => /\ switches' = switches
           /\ ListenerArmed' => ev'.op = "resume"]_vars

\* a delivery has just failed with -EPIPE on a device that is not suspended
\* and had delivered a switch byte before: the listener is idle
C16_Witness ==
  /\ devpc = "bound" /\ ~suspended /\ switches # 0
  /\ ev.op = "interrupt_handler" /\ ev.tag = "status" /\ ev.val = -EPIPE
  /\ int_in_urb = "idle"

\* C17 as stated: while the device is attached and not detaching, the
\* suspended flag is true if and only if the listener is not armed.
C17_SuspendedIffUnarmed ==
  (devpc = "bound" /\ pmpc = "idle") => (suspended <=> ~ListenerArmed)

\* C17: while the device is attached and not detaching and no suspend call
\* is in progress, a true suspended flag implies that the listener is not
\* armed (an armed listener implies that the flag is false).
C17_SuspendedImpliesUnarmed ==
  (devpc = "bound" /\ pmpc = "idle" /\ suspended) => ~ListenerArmed

\* suspend has just returned 0 on a device that had delivered a switch byte
C17_Witness ==
  /\ devpc = "bound" /\ pmpc = "idle" /\ suspended /\ ~ListenerArmed
  /\ ev.op = "suspend" /\ ev.tag = "ret" /\ ev.val = 0
  /\ switches = 1

CompletionHandlers == {"write_bulk_callback", "interrupt_handler"}

\* C18: a completion handler (bulk-write callback, interrupt listener) that
\* runs for a transfer with a teardown status (-ENOENT, -ECONNRESET,
\* -ESHUTDOWN) logs nothing, and logs every other non-zero status.
C18_TeardownStatusesNotLogged ==
  (ev.op \in CompletionHandlers /\ ev.tag = "status")
  => /\ ev.val \in TeardownStatuses => ev.log = "none"
     /\ (ev.val # 0 /\ ev.val \notin TeardownStatuses) => ev.log # "none"

\* C19: after a failed attach the context, when one was allocated, has been
\* released exactly once and the interrupt listener is not armed.
C19_FailedAttachReleasesAll ==
  devpc = "failed"
  => /\ ctx \in {"none", "freed"}
     /\ deleted = IF ctx = "freed" THEN 1 ELSE 0
     /\ ~ListenerArmed

\* a suspend call has returned 0 and no resume has cleared the flag, or a
\* detach call has returned
Stopped ==
  \/ suspended /\ pmpc = "idle"
  \/ devpc = "gone" /\ disc_fx2dev # "NULL"

\* C20: once suspend or detach has returned, the listener is not armed and
\* its handler is not running; from then on the cached switches byte does
\* not change and only a resume arms the listener again.
C20_StoppedListenerStaysStopped ==
  /\ [](Stopped => (~ListenerArmed /\ ihpc = "idle"))
  /\ [][Stopped => /\ switches' = switches
                   /\ ListenerArmed' => ev'.op = "resume"]_vars

\* suspend has just returned 0 after the listener had delivered 129
C20_Witness ==
  /\ suspended /\ pmpc = "idle" /\ int_in_urb = "idle" /\ ihpc = "idle"
  /\ ev.op = "suspend" /\ ev.tag = "ret" /\ ev.val = 0
  /\ switches = 129

\* C21: the bulk-write completion callback never dereferences the cleared
\* interface link or a destroyed context, whatever the completion status:
\* it neither faults nor logs through a stale pointer.
C21_CallbackTouchesNothingStale ==
  (ev.op = "write_bulk_callback") => (ev.tag = "status" /\ ev.log # "garbage")

\* the step just taken is caller p's read or write issuing a bulk transfer
\* (accepted, refused or crashed)
IssuesTransfer(p) ==
  /\ pc[p] = "opened"
  /\ \/ pc'[p] \in {"r_load", "w_load"}
     \/ ev'.p = p /\ ev'.op = "read"
     \/ ev'.p = p /\ ev'.op = "write" /\ ev'.arg > 0
                  /\ ev'.val \notin {-ENOMEM, -EFAULT}

\* C22: once detach has cleared fx2dev->interface, an open fails with
\* -ENODEV and a read or write on a session opened earlier issues no bulk
\* transfer and does not fault on the cleared link.
C22_NoIoAfterDetach ==
  [][(ctx = "live" /\ interface = "NULL" /\ devpc \in {"d_kill", "d_files", "d_put", "gone"})
       => /\ (ev'.op = "open" /\ ev'.tag = "ret") => ev'.val = -ENODEV
          /\ \A p \in Procs : ~IssuesTransfer(p)
          /\ ev'.op \in {"read", "write"} => ev'.tag # "oops"]_vars

\* C26: the update of pending_data made by a write or by a read is applied
\* to the value pending_data has when the update is stored, so that a
\* concurrent update by the other session is not lost.
C26_NoLostUpdate ==
  [][\A p \in Procs :
       /\ (pc[p] = "w_store" /\ pc'[p] = "opened")
            => pending_data' = (pending_data + count[p]) % SizeModulus
       /\ (pc[p] = "r_store" /\ pc'[p] = "opened" /\ retval[p] >= 0)
            => pending_data' = (pending_data - retval[p]) % SizeModulus]_vars

\* C27: no transfer buffer allocated by a write is left unreleased: the
\* write releases it when the copy or the submission fails, the completion
\* callback releases it otherwise.
C27_BufferReleasedOnce ==
  \A u \in Urbs : urbs[u] # "leaked"

\* C23: an open that runs concurrently with a detach never works on a
\* destroyed context: while it is between its first permit access and its
\* return the context is alive, and it returns -ENODEV, -EBUSY or a session
\* on a context that is alive and was never destroyed.
C23_OpenNeverTouchesDestroyed ==
  /\ \A p \in Procs : pc[p] \in (OpenPcs \ {"o_intfdata"}) => ctx = "live"
  /\ (ev.op = "open" /\ ev.tag = "ret")
       => /\ ev.val \in {0, -ENODEV, -EBUSY}
          /\ ev.val = 0 => (ctx = "live" /\ deleted = 0)

\* an open has returned a session while the detach of the device was
\* waiting in usb_deregister_dev
C23_Witness ==
  /\ devpc = "d_dereg" /\ intfdata = "NULL"
  /\ ev.op = "open" /\ ev.tag = "ret" /\ ev.val = 0
  /\ ctx = "live" /\ kref = 2

\* caller q has the write (read) permit: it has a session with that access,
\* or it is an open that took the permit and has not been refused
TakenWrite(q) ==
  HoldsWrite(q) \/ (pc[q] \in {"o_rdec", "o_kref"} /\ WantsWrite(flags[q]))
TakenRead(q) ==
  HoldsRead(q) \/ (pc[q] = "o_kref" /\ WantsRead(flags[q]))

\* C25: an open is refused a permit only while another caller has it: when
\* the test of the write (read) permit fails, some other caller has a
\* session holding it or is an open that took it and was not refused; an
\* open that is itself failing does not count.
C25_BusyOnlyWhenHeld ==
  [][\A p \in Procs :
       /\ (pc[p] = "o_wdec" /\ pc'[p] = "o_winc")
            => \E q \in Procs \ {p} : TakenWrite(q)
       /\ (pc[p] = "o_rdec" /\ pc'[p] = "o_rinc")
            => \E q \in Procs \ {p} : TakenRead(q)]_vars

\* C24: no control transfer of a bargraph or 7-segment read is issued while
\* suspended is set: whenever such a read performs its usb_control_msg, the
\* flag is clear.
C24_NoReadTransferWhileSuspended ==
  [][(apc # "idle" /\ apc' = "idle") => ~suspended]_vars

====
